---- MODULE Spec2Model ----
(***************************************************************************)
(* verify-eip712.py: the script recomputes the EIP-712 domain separator,   *)
(* struct hash and signing hash of one DataNodeRequest and compares them   *)
(* with three expected hex strings.                                        *)
(*                                                                         *)
(* Values.  A Python str is the sequence of its code points, a bytes       *)
(* object the sequence of its bytes (0..255), an int a sign and a          *)
(* magnitude in base-256 digits, least significant first, without leading  *)
(* zero digits (Python ints are unbounded; TLC's are 32 bits wide).  A     *)
(* call that may raise returns [exc, val]: exc is "none" and val the       *)
(* result, or exc names the exception and val is empty.                    *)
(***************************************************************************)
EXTENDS Integers, Sequences, FiniteSets, TLC

VARIABLES
    \* the script's module-level inputs (lines 26-36)
    NAME, VERSION, CHAIN_ID, VERIFYING_CONTRACT, METHOD, PATH, TIMESTAMP, NONCE,
    \* the position in the script and the exception that ended it, if any
    pc, exc,
    \* domain separator computation (lines 41-60)
    domain_type_hash, name_hash, version_hash, chain_id_bytes, address_bytes,
    domain_data, domain_separator,
    \* struct hash computation (lines 69-88)
    struct_type_hash, method_hash, path_hash, timestamp_bytes, nonce_bytes,
    struct_data, struct_hash,
    \* message hash computation (lines 97-99)
    message, message_hash,
    \* the three booleans printed by lines 111-113
    verification,
    \* a single call of one of the two encoders: function, argument, result
    fn, arg, ret

inputs == <<NAME, VERSION, CHAIN_ID, VERIFYING_CONTRACT, METHOD, PATH, TIMESTAMP, NONCE>>
domainVars == <<domain_type_hash, name_hash, version_hash, chain_id_bytes, address_bytes,
                domain_data, domain_separator>>
structVars == <<struct_type_hash, method_hash, path_hash, timestamp_bytes, nonce_bytes,
                struct_data, struct_hash>>
messageVars == <<message, message_hash>>
callVars == <<fn, arg, ret>>
vars == <<inputs, pc, exc, domainVars, structVars, messageVars, verification, callVars>>

Ok(v) == [exc |-> "none", val |-> v]
Raise(e) == [exc |-> e, val |-> <<>>]

\* evaluates every element of a sequence once
Force(s) == s \o <<>>

\* the concatenation of the sequences ss[lo], ..., ss[hi], by halves
RECURSIVE ConcatRange(_, _, _)
ConcatRange(ss, lo, hi) ==
    IF lo > hi THEN <<>>
    ELSE IF lo = hi THEN ss[lo]
    ELSE CHOOSE out \in
            {ConcatRange(ss, lo, mid) \o ConcatRange(ss, mid + 1, hi) :
                mid \in {(lo + hi) \div 2}} : TRUE

Concat(ss) == CHOOSE out \in {ConcatRange(parts, 1, Len(parts)) : parts \in {Force(ss)}} : TRUE

(***************************************************************************)
(* str literals                                                            *)
(***************************************************************************)
\* the printable ASCII characters by code point: 32..95 and 97..126 (a
\* backquote, 96, cannot be written in a literal of this notation)
AsciiLow == " !\"#$%&'()*+,-./0123456789:;<=>?@ABCDEFGHIJKLMNOPQRSTUVWXYZ[\\]^_"
AsciiHigh == "abcdefghijklmnopqrstuvwxyz{|}~"

CodePoint(c) ==
    IF \E k \in 1..Len(AsciiLow) : SubSeq(AsciiLow, k, k) = c
    THEN 31 + (CHOOSE k \in 1..Len(AsciiLow) : SubSeq(AsciiLow, k, k) = c)
    ELSE 96 + (CHOOSE k \in 1..Len(AsciiHigh) : SubSeq(AsciiHigh, k, k) = c)

\* the str value of an ASCII literal
Str(lit) == [i \in 1..Len(lit) |-> CodePoint(SubSeq(lit, i, i))] \o <<>>

IsSurrogate(cp) == cp >= 55296 /\ cp <= 57343

\* str.encode('utf-8') of one code point
Utf8Char(cp) ==
    IF cp < 128 THEN <<cp>>
    ELSE IF cp < 2048 THEN <<192 + (cp \div 64), 128 + (cp % 64)>>
    ELSE IF cp < 65536 THEN <<224 + (cp \div 4096), 128 + ((cp \div 64) % 64), 128 + (cp % 64)>>
    ELSE <<240 + (cp \div 262144), 128 + ((cp \div 4096) % 64),
           128 + ((cp \div 64) % 64), 128 + (cp % 64)>>

\* str.encode('utf-8'): a lone surrogate cannot be encoded
encode_utf8(s) ==
    IF \E i \in 1..Len(s) : IsSurrogate(s[i]) THEN Raise("UnicodeEncodeError")
    ELSE Ok(Concat([i \in 1..Len(s) |-> Utf8Char(s[i])]))

HexDigits == Str("0123456789abcdef")

\* bytes.hex(): two lower-case hex digits per byte
Hex(b) == [i \in 1..(2 * Len(b)) |->
             IF i % 2 = 1 THEN HexDigits[(b[(i + 1) \div 2] \div 16) + 1]
             ELSE HexDigits[(b[i \div 2] % 16) + 1]] \o <<>>

\* the value of a hex digit character, 16 for any other character
HexVal(c) ==
    IF c >= 48 /\ c <= 57 THEN c - 48
    ELSE IF c >= 97 /\ c <= 102 THEN c - 87
    ELSE IF c >= 65 /\ c <= 70 THEN c - 55
    ELSE 16

\* ASCII whitespace: space, \t, \n, \v, \f, \r
IsSpace(c) == c = 32 \/ (c >= 9 /\ c <= 13)

\* bytes.fromhex(): whitespace is skipped between bytes, each byte is two hex
\* digits, anything else is a ValueError
RECURSIVE fromhex_from(_, _, _)
fromhex_from(s, i, acc) ==
    IF i > Len(s) THEN Ok(acc)
    ELSE IF IsSpace(s[i]) THEN fromhex_from(s, i + 1, acc)
    ELSE IF HexVal(s[i]) = 16 THEN Raise("ValueError")
    ELSE IF i + 1 > Len(s) \/ HexVal(s[i + 1]) = 16 THEN Raise("ValueError")
    ELSE fromhex_from(s, i + 2, Append(acc, 16 * HexVal(s[i]) + HexVal(s[i + 1])))

fromhex(s) == fromhex_from(s, 1, <<>>)

(***************************************************************************)
(* Keccak-256 (Crypto.Hash.keccak, digest_bits=256): the sponge over       *)
(* Keccak-f[1600] with rate 136 bytes and the original 0x01 .. 0x80        *)
(* padding.  The state is 200 bytes: lane (x, y) is bytes                  *)
(* 8*(x+5y)+1 .. 8*(x+5y)+8, least significant byte first.                 *)
(***************************************************************************)
BitXor(a, b) == (a + b) % 2

\* XorNib[a+1][b+1] = a XOR b and AndNib[a+1][b+1] = a AND b on 4-bit values
XorNib == Force([a \in 1..16 |-> Force([b \in 1..16 |->
    LET p == a - 1  q == b - 1 IN
    BitXor(p % 2, q % 2) + 2 * BitXor((p \div 2) % 2, (q \div 2) % 2)
    + 4 * BitXor((p \div 4) % 2, (q \div 4) % 2) + 8 * BitXor(p \div 8, q \div 8)])])
AndNib == Force([a \in 1..16 |-> Force([b \in 1..16 |->
    LET p == a - 1  q == b - 1 IN
    ((p % 2) * (q % 2)) + 2 * (((p \div 2) % 2) * ((q \div 2) % 2))
    + 4 * (((p \div 4) % 2) * ((q \div 4) % 2)) + 8 * ((p \div 8) * (q \div 8))])])

\* XorTab[a+1][b+1] = a XOR b and NotAndTab[a+1][b+1] = (NOT a) AND b on bytes
XorTab == Force([a \in 1..256 |-> Force([b \in 1..256 |->
    16 * XorNib[((a - 1) \div 16) + 1][((b - 1) \div 16) + 1]
    + XorNib[((a - 1) % 16) + 1][((b - 1) % 16) + 1]])])
NotAndTab == Force([a \in 1..256 |-> Force([b \in 1..256 |->
    16 * AndNib[16 - ((a - 1) \div 16)][((b - 1) \div 16) + 1]
    + AndNib[16 - ((a - 1) % 16)][((b - 1) % 16) + 1]])])

\* the 24 round constants, each as 8 bytes, least significant first
RC == <<
    <<1,0,0,0,0,0,0,0>>,         <<130,128,0,0,0,0,0,0>>,     <<138,128,0,0,0,0,0,128>>,
    <<0,128,0,128,0,0,0,128>>,   <<139,128,0,0,0,0,0,0>>,     <<1,0,0,128,0,0,0,0>>,
    <<129,128,0,128,0,0,0,128>>, <<9,128,0,0,0,0,0,128>>,     <<138,0,0,0,0,0,0,0>>,
    <<136,0,0,0,0,0,0,0>>,       <<9,128,0,128,0,0,0,0>>,     <<10,0,0,128,0,0,0,0>>,
    <<139,128,0,128,0,0,0,0>>,   <<139,0,0,0,0,0,0,128>>,     <<137,128,0,0,0,0,0,128>>,
    <<3,128,0,0,0,0,0,128>>,     <<2,128,0,0,0,0,0,128>>,     <<128,0,0,0,0,0,0,128>>,
    <<10,128,0,0,0,0,0,0>>,      <<10,0,0,128,0,0,0,128>>,    <<129,128,0,128,0,0,0,128>>,
    <<128,128,0,0,0,0,0,128>>,   <<1,0,0,128,0,0,0,0>>,       <<8,128,0,128,0,0,0,128>> >>

\* the rotation offsets, ROT[x+1][y+1]
ROT == << <<0,36,3,41,18>>, <<1,44,10,45,2>>, <<62,6,43,15,61>>,
          <<28,55,25,21,56>>, <<27,20,39,8,14>> >>

Pow2 == <<1, 2, 4, 8, 16, 32, 64, 128, 256>>

\* lane index x+5y and byte-in-lane of state byte i
LaneOf == Force([i \in 1..200 |-> (i - 1) \div 8])
ByteOf == Force([i \in 1..200 |-> (i - 1) % 8])

\* theta: the position in the column parities C and D (5 lanes) of byte i, and
\* in C of the same byte of columns x-1 and x+1 and of the byte below it
ColIdx == Force([i \in 1..200 |-> 8 * (LaneOf[i] % 5) + ByteOf[i] + 1])
DPrev == Force([i \in 1..40 |-> 8 * ((((i - 1) \div 8) + 4) % 5) + ((i - 1) % 8) + 1])
DNext == Force([i \in 1..40 |-> 8 * ((((i - 1) \div 8) + 1) % 5) + ((i - 1) % 8) + 1])
DNextLo == Force([i \in 1..40 |-> 8 * ((((i - 1) \div 8) + 1) % 5) + ((i + 6) % 8) + 1])

\* rho and pi: B[y][2x+3y] = rol(A[x][y], ROT[x][y]); for byte i of B, the
\* source lane, its rotation, and the two source bytes that overlap byte i
SrcLane == Force([i \in 1..200 |->
    LET bx == LaneOf[i] % 5  by == LaneOf[i] \div 5 IN ((bx + 3 * by) % 5) + 5 * bx])
SrcRot == Force([i \in 1..200 |-> ROT[(SrcLane[i] % 5) + 1][(SrcLane[i] \div 5) + 1]])
SrcHi == Force([i \in 1..200 |-> 8 * SrcLane[i] + ((ByteOf[i] + 8 - (SrcRot[i] \div 8)) % 8) + 1])
SrcLo == Force([i \in 1..200 |-> 8 * SrcLane[i] + ((ByteOf[i] + 15 - (SrcRot[i] \div 8)) % 8) + 1])
SrcMul == Force([i \in 1..200 |-> Pow2[(SrcRot[i] % 8) + 1]])
SrcDiv == Force([i \in 1..200 |-> Pow2[9 - (SrcRot[i] % 8)]])

\* chi: the same byte of lanes x+1 and x+2 of the row
Chi1 == Force([i \in 1..200 |->
    8 * ((((LaneOf[i] % 5) + 1) % 5) + 5 * (LaneOf[i] \div 5)) + ByteOf[i] + 1])
Chi2 == Force([i \in 1..200 |->
    8 * ((((LaneOf[i] % 5) + 2) % 5) + 5 * (LaneOf[i] \div 5)) + ByteOf[i] + 1])

\* Each intermediate value below is bound by a quantifier over a one-element
\* set, which evaluates it exactly once before its many uses.
ThetaC(A) ==
    Force([i \in 1..40 |->
        XorTab[XorTab[XorTab[XorTab[A[i] + 1][A[i + 40] + 1] + 1][A[i + 80] + 1] + 1]
               [A[i + 120] + 1] + 1][A[i + 160] + 1]])

ThetaD(C) ==
    Force([i \in 1..40 |->
        XorTab[C[DPrev[i]] + 1][((C[DNext[i]] * 2) % 256) + (C[DNextLo[i]] \div 128) + 1]])

ThetaXor(A, D) == Force([i \in 1..200 |-> XorTab[A[i] + 1][D[ColIdx[i]] + 1]])

RhoPi(A) ==
    Force([i \in 1..200 |-> ((A[SrcHi[i]] * SrcMul[i]) % 256) + (A[SrcLo[i]] \div SrcDiv[i])])

Chi(B) ==
    Force([i \in 1..200 |-> XorTab[B[i] + 1][NotAndTab[B[Chi1[i]] + 1][B[Chi2[i]] + 1] + 1]])

Iota(A, r) == Force([i \in 1..200 |-> IF i <= 8 THEN XorTab[A[i] + 1][RC[r][i] + 1] ELSE A[i]])

\* round r of Keccak-f[1600]: theta, rho and pi, chi, iota
Round(A, r) ==
    CHOOSE out \in
        {Iota(X, r) : X \in
            {Chi(B) : B \in
                {RhoPi(T) : T \in
                    {ThetaXor(A, D) : D \in
                        {ThetaD(C) : C \in {ThetaC(A)}}}}}} : TRUE

\* rounds lo..hi in order, by halves
RECURSIVE Rounds(_, _, _)
Rounds(A, lo, hi) ==
    IF lo = hi THEN Round(A, lo)
    ELSE CHOOSE out \in
            {Rounds(B, ((lo + hi) \div 2) + 1, hi) : B \in {Rounds(A, lo, (lo + hi) \div 2)}} : TRUE

\* Keccak-f[1600]: 24 rounds
KeccakF(A) == Rounds(A, 1, 24)

\* bytes absorbed per permutation: 200 less twice the 32-byte digest
RATE == 200 - 2 * 32

\* pad10*1 on bytes: 0x01, zeros, 0x80 (0x81 when one byte is missing)
Pad(data) ==
    LET n == RATE - (Len(data) % RATE)
    IN data \o [i \in 1..n |-> IF n = 1 THEN 129 ELSE IF i = 1 THEN 1 ELSE IF i = n THEN 128 ELSE 0]

\* the block of p at offset off XORed into the first RATE bytes of the state
XorBlock(A, p, off) ==
    Force([i \in 1..200 |-> IF i <= RATE THEN XorTab[A[i] + 1][p[off + i] + 1] ELSE A[i]])

RECURSIVE Absorb(_, _, _)
Absorb(A, p, off) ==
    IF off >= Len(p) THEN A
    ELSE CHOOSE out \in
            {Absorb(B, p, off + RATE) : B \in
                {KeccakF(X) : X \in {XorBlock(A, p, off)}}} : TRUE

keccak256(data) ==
    CHOOSE digest \in
        {SubSeq(A, 1, 32) : A \in
            {Absorb(Z, p, 0) : Z \in {Force([i \in 1..200 |-> 0])}, p \in {Pad(data)}}} : TRUE

(***************************************************************************)
(* int                                                                     *)
(***************************************************************************)
\* the base-256 digits of a natural number of TLC's, least significant first
RECURSIVE Digits(_)
Digits(n) == IF n = 0 THEN <<>> ELSE <<n % 256>> \o Digits(n \div 256)

\* the int value of a decimal literal n >= 0, and of -n
PyInt(n) == [neg |-> FALSE, mag |-> Digits(n)]
PyNeg(n) == [neg |-> n # 0, mag |-> Digits(n)]

\* int.to_bytes(length, 'big'): OverflowError for a negative int ("can't convert
\* negative int to unsigned") and for one that needs more than length bytes
\* ("int too big to convert")
to_bytes_big(value, length) ==
    IF value.neg THEN Raise("OverflowError")
    ELSE IF Len(value.mag) > length THEN Raise("OverflowError")
    ELSE Ok([i \in 1..length |->
                IF length + 1 - i <= Len(value.mag) THEN value.mag[length + 1 - i] ELSE 0])

\* fault: the bytes in little-endian order
encode_u256_little(value) ==
    IF value.neg \/ Len(value.mag) > 32 THEN Raise("OverflowError")
    ELSE Ok([i \in 1..32 |-> IF i <= Len(value.mag) THEN value.mag[i] ELSE 0])

\* fault: the value reduced modulo 2^256 instead of rejected
encode_u256_wrap(value) ==
    Ok([i \in 1..32 |-> IF 33 - i <= Len(value.mag) THEN value.mag[33 - i] ELSE 0])

encode_u256(value) == to_bytes_big(value, 32)

\* fault: the zero bytes after the address bytes
encode_address_rightpad(address) ==
    LET addr_bytes == fromhex(SubSeq(address, 3, Len(address)))
    IN IF addr_bytes.exc # "none" THEN addr_bytes
       ELSE Ok(addr_bytes.val \o [i \in 1..12 |-> 0])

encode_address(address) ==
    LET addr_bytes == fromhex(SubSeq(address, 3, Len(address)))
    IN IF addr_bytes.exc # "none" THEN addr_bytes
       ELSE Ok([i \in 1..12 |-> 0] \o addr_bytes.val)

(***************************************************************************)
(* The script's literals (lines 24-36 and 106-108)                         *)
(***************************************************************************)
DOMAIN_TYPE == Str("EIP712Domain(string name,string version,uint256 chainId,address verifyingContract)")
LIT_NAME == Str("DataNode")
LIT_VERSION == Str("1")
LIT_CHAIN_ID == PyInt(111222333)
LIT_VERIFYING_CONTRACT == Str("0x5dE1C21682EF8b39aeB0BA9FA6068C650d3f744e")

STRUCT_TYPE == Str("DataNodeRequest(string method,string path,uint256 timestamp,uint256 nonce)")
LIT_METHOD == Str("GET")
LIT_PATH == Str("/api/v1/prices/finnhub")
LIT_TIMESTAMP == PyInt(1770084386)
LIT_NONCE == PyInt(386866)

\* fault: a stray hex pair at the end of the expected digest
ts_domain_sep_stray == Str("b54e71ed181dc14d1d4268384ffba108241611e40a16197e69b9fb4468c862dfdf")

ts_domain_sep == Str("b54e71ed181dc14d1d4268384ffba108241611e40a16197e69b9fb4468c862df")
ts_struct_hash == Str("f126db3247e509f0c1215cdbbbfa462f367efb5c5bef8bff98534f6c2e82a0ee")
ts_message_hash == Str("af7fdd88b4ec5903cee293d25f8edde9e97ed9dc9aef5a5261cd1338e10d9a7d")

Literals ==
    [NAME |-> LIT_NAME, VERSION |-> LIT_VERSION, CHAIN_ID |-> LIT_CHAIN_ID,
     VERIFYING_CONTRACT |-> LIT_VERIFYING_CONTRACT, METHOD |-> LIT_METHOD, PATH |-> LIT_PATH,
     TIMESTAMP |-> LIT_TIMESTAMP, NONCE |-> LIT_NONCE]

(***************************************************************************)
(* The script's expressions                                                *)
(***************************************************************************)
\* fault: the string's bytes zero-padded to 32 bytes instead of hashed
utf8_padded(s) ==
    CHOOSE r \in {IF data.exc # "none" THEN data
                  ELSE Ok(data.val \o [i \in 1..(32 - Len(data.val)) |-> 0]) :
                    data \in {encode_utf8(s)}} : TRUE

\* keccak256(X.encode('utf-8')), lines 41, 46, 47, 69, 74, 75
keccak256_utf8(s) ==
    CHOOSE r \in {IF data.exc # "none" THEN data ELSE Ok(keccak256(data.val)) :
                    data \in {encode_utf8(s)}} : TRUE

\* fault: the address slot before the chain id slot
DomainData_swapped(type_hash, name_h, version_h, chain_id, address) ==
    type_hash \o name_h \o version_h \o address \o chain_id

\* line 58
DomainData(type_hash, name_h, version_h, chain_id, address) ==
    type_hash \o name_h \o version_h \o chain_id \o address

\* fault: the path slot before the method slot
StructData_swapped(type_hash, method_h, path_h, timestamp, nonce) ==
    type_hash \o path_h \o method_h \o timestamp \o nonce

\* line 86
StructData(type_hash, method_h, path_h, timestamp, nonce) ==
    type_hash \o method_h \o path_h \o timestamp \o nonce

\* fault: the version byte 0x01 left out
Message_no_version(separator, hash) == <<25>> \o separator \o hash

\* line 97: b'\x19\x01' + domain_separator + struct_hash
Message(separator, hash) == <<25, 1>> \o separator \o hash

\* fault: no comparison counts after the first mismatch
Matches_until_mismatch(separator, hash, msg_hash) ==
    <<Hex(separator) = ts_domain_sep,
      Hex(separator) = ts_domain_sep /\ Hex(hash) = ts_struct_hash,
      Hex(separator) = ts_domain_sep /\ Hex(hash) = ts_struct_hash /\ Hex(msg_hash) = ts_message_hash>>

\* lines 111-113: the three comparisons, in the order printed
Matches(separator, hash, msg_hash) ==
    <<Hex(separator) = ts_domain_sep, Hex(hash) = ts_struct_hash, Hex(msg_hash) = ts_message_hash>>

(***************************************************************************)
(* Inputs.  The script runs on its literals; the runs modelled are those   *)
(* with the literals and those with one literal replaced.                  *)
(***************************************************************************)
\* the length of the long strings tried, more than one Keccak block
LongLen == 140
\* the integers tried are around the powers of two up to 2^MaxBits
MaxBits == 264
\* the addresses tried have up to MaxAddrBytes bytes
MaxAddrBytes == 22

\* 2^k and 2^k - 1 as ints
Pow2Int(k) ==
    [neg |-> FALSE,
     mag |-> [i \in 1..((k \div 8) + 1) |-> IF i = (k \div 8) + 1 THEN Pow2[(k % 8) + 1] ELSE 0]]
Pow2Minus1(k) ==
    [neg |-> FALSE,
     mag |-> [i \in 1..((k + 7) \div 8) |-> IF i <= k \div 8 THEN 255 ELSE Pow2[(k % 8) + 1] - 1]]
Negate(v) == [neg |-> v.mag # <<>>, mag |-> v.mag]

\* n bytes, none of them zero, that differ with m
PatternBytes(n, m) == [i \in 1..n |-> ((m * i + 7 * m) % 255) + 1]

\* the hex digits a-f in upper case
Upper(s) == [i \in 1..Len(s) |-> IF s[i] >= 97 /\ s[i] <= 102 THEN s[i] - 32 ELSE s[i]]

Choices ==
    [NAME |-> {LIT_NAME, Str(""), Str("datanode"), <<68, 228, 116, 97, 8364>>,
               [i \in 1..LongLen |-> 120], <<68, 55357>>},
     VERSION |-> {LIT_VERSION, Str("2"), <<56320>>},
     CHAIN_ID |-> {LIT_CHAIN_ID, PyInt(0), Pow2Minus1(256), Pow2Int(256), PyNeg(1)},
     VERIFYING_CONTRACT |->
         {LIT_VERIFYING_CONTRACT,
          Str("0x5de1c21682ef8b39aeb0ba9fa6068c650d3f744e"),
          Str("0x5dE1C21682EF8b39aeB0BA9FA6068C650d3f74"),
          Str("0x5dE1C21682EF8b39aeB0BA9FA6068C650d3f744e00"),
          Str("5dE1C21682EF8b39aeB0BA9FA6068C650d3f744e"),
          Str("0x5dE1C21682EF8b39aeB0BA9FA6068C650d3f744"),
          Str("0x5dE1C21682EF8b39aeB0BA9FA6068C650d3f74zz")},
     METHOD |-> {LIT_METHOD, Str("POST"), <<71, 57000>>},
     PATH |-> {LIT_PATH, Str("/"), <<47, 56000>>},
     TIMESTAMP |-> {LIT_TIMESTAMP, PyInt(0), PyNeg(1770084386)},
     NONCE |-> {LIT_NONCE, Pow2Minus1(256), Pow2Int(257)}]

U256Inputs ==
    {Pow2Int(k) : k \in 0..MaxBits} \cup {Pow2Minus1(k) : k \in 0..MaxBits}
    \cup {Negate(Pow2Int(k)) : k \in 0..MaxBits}
    \cup {[neg |-> FALSE, mag |-> PatternBytes(n, 3)] : n \in 1..((MaxBits + 7) \div 8)}
    \cup Choices.CHAIN_ID \cup Choices.TIMESTAMP \cup Choices.NONCE

AddressInputs ==
    {Str("0x") \o Hex(PatternBytes(n, m)) : n \in 0..MaxAddrBytes, m \in {1, 2, 3}}
    \cup {Str("0X") \o Upper(Hex(PatternBytes(n, 5))) : n \in 0..MaxAddrBytes}
    \cup {Hex(PatternBytes(n, 11)) : n \in 0..MaxAddrBytes}
    \cup {Str("0x") \o Tail(Hex(PatternBytes(n, 13))) : n \in 1..MaxAddrBytes}
    \cup {Str("0x") \o Hex(PatternBytes(n, 17)) \o Str(" ") \o Hex(PatternBytes(20 - n, 19)) : n \in 0..20}
    \cup Choices.VERIFYING_CONTRACT

Empty == <<>>

(***************************************************************************)
(* The run of the script                                                   *)
(***************************************************************************)
Unassigned ==
    /\ exc = "none"
    /\ domain_type_hash = Empty /\ name_hash = Empty /\ version_hash = Empty
    /\ chain_id_bytes = Empty /\ address_bytes = Empty
    /\ domain_data = Empty /\ domain_separator = Empty
    /\ struct_type_hash = Empty /\ method_hash = Empty /\ path_hash = Empty
    /\ timestamp_bytes = Empty /\ nonce_bytes = Empty
    /\ struct_data = Empty /\ struct_hash = Empty
    /\ message = Empty /\ message_hash = Empty
    /\ verification = Empty

SetInputs(in) ==
    /\ NAME = in.NAME /\ VERSION = in.VERSION /\ CHAIN_ID = in.CHAIN_ID
    /\ VERIFYING_CONTRACT = in.VERIFYING_CONTRACT
    /\ METHOD = in.METHOD /\ PATH = in.PATH
    /\ TIMESTAMP = in.TIMESTAMP /\ NONCE = in.NONCE

Init ==
    /\ \E k \in DOMAIN Choices : \E v \in Choices[k] : SetInputs([Literals EXCEPT ![k] = v])
    /\ pc = "domain_type_hash"
    /\ Unassigned
    /\ fn = "none" /\ arg = Empty /\ ret = Empty

\* line 41
Assign_domain_type_hash ==
    /\ pc = "domain_type_hash"
    /\ \E r \in {keccak256_utf8(DOMAIN_TYPE)} :
          IF r.exc # "none"
          THEN /\ pc' = "raised" /\ exc' = r.exc /\ UNCHANGED domain_type_hash
          ELSE /\ domain_type_hash' = r.val /\ pc' = "name_hash" /\ UNCHANGED exc
    /\ UNCHANGED <<inputs, name_hash, version_hash, chain_id_bytes, address_bytes,
                 domain_data, domain_separator, structVars, messageVars, verification, callVars>>

\* line 46
Assign_name_hash ==
    /\ pc = "name_hash"
    /\ \E r \in {keccak256_utf8(NAME)} :
          IF r.exc # "none"
          THEN /\ pc' = "raised" /\ exc' = r.exc /\ UNCHANGED name_hash
          ELSE /\ name_hash' = r.val /\ pc' = "version_hash" /\ UNCHANGED exc
    /\ UNCHANGED <<inputs, domain_type_hash, version_hash, chain_id_bytes,
                 address_bytes, domain_data, domain_separator, structVars, messageVars,
                 verification, callVars>>

\* line 47
Assign_version_hash ==
    /\ pc = "version_hash"
    /\ \E r \in {keccak256_utf8(VERSION)} :
          IF r.exc # "none"
          THEN /\ pc' = "raised" /\ exc' = r.exc /\ UNCHANGED version_hash
          ELSE /\ version_hash' = r.val /\ pc' = "chain_id_bytes" /\ UNCHANGED exc
    /\ UNCHANGED <<inputs, domain_type_hash, name_hash, chain_id_bytes, address_bytes,
                 domain_data, domain_separator, structVars, messageVars, verification, callVars>>

\* line 52
Assign_chain_id_bytes ==
    /\ pc = "chain_id_bytes"
    /\ \E r \in {encode_u256(CHAIN_ID)} :
          IF r.exc # "none"
          THEN /\ pc' = "raised" /\ exc' = r.exc /\ UNCHANGED chain_id_bytes
          ELSE /\ chain_id_bytes' = r.val /\ pc' = "address_bytes" /\ UNCHANGED exc
    /\ UNCHANGED <<inputs, domain_type_hash, name_hash, version_hash, address_bytes,
                 domain_data, domain_separator, structVars, messageVars, verification, callVars>>

\* line 53
Assign_address_bytes ==
    /\ pc = "address_bytes"
    /\ \E r \in {encode_address(VERIFYING_CONTRACT)} :
          IF r.exc # "none"
          THEN /\ pc' = "raised" /\ exc' = r.exc /\ UNCHANGED address_bytes
          ELSE /\ address_bytes' = r.val /\ pc' = "domain_data" /\ UNCHANGED exc
    /\ UNCHANGED <<inputs, domain_type_hash, name_hash, version_hash, chain_id_bytes,
                 domain_data, domain_separator, structVars, messageVars, verification, callVars>>

\* line 58
Assign_domain_data ==
    /\ pc = "domain_data"
    /\ domain_data' = DomainData(domain_type_hash, name_hash, version_hash, chain_id_bytes, address_bytes)
    /\ pc' = "domain_separator"
    /\ UNCHANGED exc
    /\ UNCHANGED <<inputs, domain_type_hash, name_hash, version_hash, chain_id_bytes,
                 address_bytes, domain_separator, structVars, messageVars, verification,
                 callVars>>

\* line 60
Assign_domain_separator ==
    /\ pc = "domain_separator"
    /\ domain_separator' = keccak256(domain_data)
    /\ pc' = "struct_type_hash"
    /\ UNCHANGED exc
    /\ UNCHANGED <<inputs, domain_type_hash, name_hash, version_hash, chain_id_bytes,
                 address_bytes, domain_data, structVars, messageVars, verification, callVars>>

\* line 69
Assign_struct_type_hash ==
    /\ pc = "struct_type_hash"
    /\ \E r \in {keccak256_utf8(STRUCT_TYPE)} :
          IF r.exc # "none"
          THEN /\ pc' = "raised" /\ exc' = r.exc /\ UNCHANGED struct_type_hash
          ELSE /\ struct_type_hash' = r.val /\ pc' = "method_hash" /\ UNCHANGED exc
    /\ UNCHANGED <<inputs, domainVars, method_hash, path_hash, timestamp_bytes,
                 nonce_bytes, struct_data, struct_hash, messageVars, verification, callVars>>

\* line 74
Assign_method_hash ==
    /\ pc = "method_hash"
    /\ \E r \in {keccak256_utf8(METHOD)} :
          IF r.exc # "none"
          THEN /\ pc' = "raised" /\ exc' = r.exc /\ UNCHANGED method_hash
          ELSE /\ method_hash' = r.val /\ pc' = "path_hash" /\ UNCHANGED exc
    /\ UNCHANGED <<inputs, domainVars, struct_type_hash, path_hash, timestamp_bytes,
                 nonce_bytes, struct_data, struct_hash, messageVars, verification, callVars>>

\* line 75
Assign_path_hash ==
    /\ pc = "path_hash"
    /\ \E r \in {keccak256_utf8(PATH)} :
          IF r.exc # "none"
          THEN /\ pc' = "raised" /\ exc' = r.exc /\ UNCHANGED path_hash
          ELSE /\ path_hash' = r.val /\ pc' = "timestamp_bytes" /\ UNCHANGED exc
    /\ UNCHANGED <<inputs, domainVars, struct_type_hash, method_hash, timestamp_bytes,
                 nonce_bytes, struct_data, struct_hash, messageVars, verification, callVars>>

\* line 80
Assign_timestamp_bytes ==
    /\ pc = "timestamp_bytes"
    /\ \E r \in {encode_u256(TIMESTAMP)} :
          IF r.exc # "none"
          THEN /\ pc' = "raised" /\ exc' = r.exc /\ UNCHANGED timestamp_bytes
          ELSE /\ timestamp_bytes' = r.val /\ pc' = "nonce_bytes" /\ UNCHANGED exc
    /\ UNCHANGED <<inputs, domainVars, struct_type_hash, method_hash, path_hash,
                 nonce_bytes, struct_data, struct_hash, messageVars, verification, callVars>>

\* line 81
Assign_nonce_bytes ==
    /\ pc = "nonce_bytes"
    /\ \E r \in {encode_u256(NONCE)} :
          IF r.exc # "none"
          THEN /\ pc' = "raised" /\ exc' = r.exc /\ UNCHANGED nonce_bytes
          ELSE /\ nonce_bytes' = r.val /\ pc' = "struct_data" /\ UNCHANGED exc
    /\ UNCHANGED <<inputs, domainVars, struct_type_hash, method_hash, path_hash,
                 timestamp_bytes, struct_data, struct_hash, messageVars, verification, callVars>>

\* line 86
Assign_struct_data ==
    /\ pc = "struct_data"
    /\ struct_data' = StructData(struct_type_hash, method_hash, path_hash, timestamp_bytes, nonce_bytes)
    /\ pc' = "struct_hash"
    /\ UNCHANGED exc
    /\ UNCHANGED <<inputs, domainVars, struct_type_hash, method_hash, path_hash,
                 timestamp_bytes, nonce_bytes, struct_hash, messageVars, verification, callVars>>

\* line 88
Assign_struct_hash ==
    /\ pc = "struct_hash"
    /\ struct_hash' = keccak256(struct_data)
    /\ pc' = "message"
    /\ UNCHANGED exc
    /\ UNCHANGED <<inputs, domainVars, struct_type_hash, method_hash, path_hash,
                 timestamp_bytes, nonce_bytes, struct_data, messageVars, verification, callVars>>

\* line 97
Assign_message ==
    /\ pc = "message"
    /\ message' = Message(domain_separator, struct_hash)
    /\ pc' = "message_hash"
    /\ UNCHANGED exc
    /\ UNCHANGED <<inputs, domainVars, structVars, message_hash, verification, callVars>>

\* line 99
Assign_message_hash ==
    /\ pc = "message_hash"
    /\ message_hash' = keccak256(message)
    /\ pc' = "verification"
    /\ UNCHANGED exc
    /\ UNCHANGED <<inputs, domainVars, structVars, message, verification, callVars>>

\* lines 111-113
Verify ==
    /\ pc = "verification"
    /\ verification' = Matches(domain_separator, struct_hash, message_hash)
    /\ pc' = "done"
    /\ UNCHANGED exc
    /\ UNCHANGED <<inputs, domainVars, structVars, messageVars, callVars>>

Next ==
    \/ Assign_domain_type_hash
    \/ Assign_name_hash
    \/ Assign_version_hash
    \/ Assign_chain_id_bytes
    \/ Assign_address_bytes
    \/ Assign_domain_data
    \/ Assign_domain_separator
    \/ Assign_struct_type_hash
    \/ Assign_method_hash
    \/ Assign_path_hash
    \/ Assign_timestamp_bytes
    \/ Assign_nonce_bytes
    \/ Assign_struct_data
    \/ Assign_struct_hash
    \/ Assign_message
    \/ Assign_message_hash
    \/ Verify

Spec == Init /\ [][Next]_vars

(***************************************************************************)
(* A single call of encode_u256 or encode_address on any of the inputs     *)
(***************************************************************************)
InitCall ==
    /\ SetInputs(Literals)
    /\ pc = "call"
    /\ Unassigned
    /\ fn = "none" /\ arg = Empty /\ ret = Empty

Call_encode_u256 ==
    /\ pc = "call"
    /\ \E value \in U256Inputs :
           /\ fn' = "encode_u256" /\ arg' = value /\ ret' = encode_u256(value)
    /\ pc' = "returned"
    /\ UNCHANGED <<inputs, exc, domainVars, structVars, messageVars, verification>>

Call_encode_address ==
    /\ pc = "call"
    /\ \E address \in AddressInputs :
           /\ fn' = "encode_address" /\ arg' = address /\ ret' = encode_address(address)
    /\ pc' = "returned"
    /\ UNCHANGED <<inputs, exc, domainVars, structVars, messageVars, verification>>

NextCall == Call_encode_u256 \/ Call_encode_address

SpecCall == InitCall /\ [][NextCall]_vars

(***************************************************************************)
(* Type strings: Name(type1 name1,type2 name2,...)                         *)
(***************************************************************************)
\* the first index >= from of character c in s, Len(s) + 1 if there is none
IndexOf(s, c, from) ==
    IF \E i \in from..Len(s) : s[i] = c
    THEN CHOOSE i \in from..Len(s) : s[i] = c /\ \A j \in from..(i - 1) : s[j] # c
    ELSE Len(s) + 1

\* the pieces of s between the occurrences of character c
RECURSIVE Split(_, _)
Split(s, c) ==
    IF IndexOf(s, c, 1) > Len(s) THEN <<s>>
    ELSE <<SubSeq(s, 1, IndexOf(s, c, 1) - 1)>> \o Split(SubSeq(s, IndexOf(s, c, 1) + 1, Len(s)), c)

\* the name before the parenthesis
TypeName(type) == SubSeq(type, 1, IndexOf(type, 40, 1) - 1)

\* the declared fields in order, each [type, name]
FieldDecls(type) ==
    LET members == Split(SubSeq(type, IndexOf(type, 40, 1) + 1, Len(type) - 1), 44)
    IN [i \in 1..Len(members) |->
          [type |-> Split(members[i], 32)[1], name |-> Split(members[i], 32)[2]]]

FieldNames(type) == [i \in 1..Len(FieldDecls(type)) |-> FieldDecls(type)[i].name]

\* the script's value of a field: the global named after it
FieldValue(name) ==
    CASE name = Str("name") -> NAME
      [] name = Str("version") -> VERSION
      [] name = Str("chainId") -> CHAIN_ID
      [] name = Str("verifyingContract") -> VERIFYING_CONTRACT
      [] name = Str("method") -> METHOD
      [] name = Str("path") -> PATH
      [] name = Str("timestamp") -> TIMESTAMP
      [] name = Str("nonce") -> NONCE

\* the encoding of a field value by its declared type
FieldEncoding(type, value) ==
    CASE type = Str("string") -> keccak256(encode_utf8(value).val)
      [] type = Str("uint256") -> encode_u256(value).val
      [] type = Str("address") -> encode_address(value).val

\* the encodings of the declared fields of a type string, in declaration order
FieldEncodings(type) ==
    Force([i \in 1..Len(FieldDecls(type)) |->
        FieldEncoding(FieldDecls(type)[i].type, FieldValue(FieldDecls(type)[i].name))])

\* the k-th 32-byte slot of a preimage, slot 0 first
Slot(data, k) == SubSeq(data, 32 * k + 1, 32 * k + 32)

IsDigest(d) == Len(d) = 32 /\ \A i \in 1..32 : d[i] \in 0..255

\* the canonical order of the EIP712Domain fields
CanonicalDomainFields ==
    <<Str("name"), Str("version"), Str("chainId"), Str("verifyingContract"), Str("salt")>>

\* the domain fields the script has a value for (lines 26-29)
PresentDomainFields == {Str("name"), Str("version"), Str("chainId"), Str("verifyingContract")}

IsPresent(field) == field \in PresentDomainFields

(***************************************************************************)
(* Properties of the run of the script                                     *)
(***************************************************************************)
\* C1: once the message is built (line 97) it is exactly 66 bytes: 0x19, 0x01,
\* the 32-byte domain separator, the 32-byte struct hash, in this order; and
\* the message hash assigned from it (line 99) is the Keccak-256 digest of
\* exactly these bytes.
C1_MessagePreimage ==
    /\ message # Empty =>
          /\ Len(message) = 66
          /\ message[1] = 25 /\ message[2] = 1
          /\ IsDigest(domain_separator) /\ IsDigest(struct_hash)
          /\ SubSeq(message, 3, 34) = domain_separator
          /\ SubSeq(message, 35, 66) = struct_hash
    /\ pc = "verification" => message_hash = keccak256(message)

C1_Witness ==
    /\ pc = "verification" /\ Len(message) = 66 /\ IsDigest(message_hash)
    /\ NAME = LIT_NAME /\ METHOD # LIT_METHOD

\* C2: when the struct hash has been assigned (line 88) it is the digest of
\* the type hash followed by one 32-byte slot per field declared in
\* STRUCT_TYPE, in declaration order (method, path, timestamp, nonce), each
\* slot the encoding of that field's value: 32 * (1 + 4) = 160 bytes, no field
\* missing, repeated or out of order.
C2_StructPreimage ==
    pc = "message" =>
        /\ FieldNames(STRUCT_TYPE) = <<Str("method"), Str("path"), Str("timestamp"), Str("nonce")>>
        /\ Len(struct_data) = 32 * (1 + Len(FieldDecls(STRUCT_TYPE)))
        /\ Len(struct_data) = 160
        /\ Slot(struct_data, 0) = keccak256(encode_utf8(STRUCT_TYPE).val)
        /\ \E enc \in {FieldEncodings(STRUCT_TYPE)} :
              \A i \in 1..Len(enc) : IsDigest(enc[i]) /\ Slot(struct_data, i) = enc[i]
        /\ struct_hash = keccak256(struct_data)

C2_Witness ==
    /\ pc = "message" /\ Len(struct_data) = 160 /\ IsDigest(struct_hash)
    /\ METHOD # LIT_METHOD

\* C3: the EIP712Domain type string lists exactly the present domain fields in
\* the canonical order, and the domain separator, when it has been assigned
\* (line 60), is the digest of the type hash followed by the encodings of
\* these fields' values in that order.
C3_DomainSeparator ==
    /\ TypeName(DOMAIN_TYPE) = Str("EIP712Domain")
    /\ FieldNames(DOMAIN_TYPE) = SelectSeq(CanonicalDomainFields, IsPresent)
    /\ pc = "struct_type_hash" =>
          /\ \E enc \in {FieldEncodings(DOMAIN_TYPE)} :
                domain_data = keccak256(encode_utf8(DOMAIN_TYPE).val)
                                \o enc[1] \o enc[2] \o enc[3] \o enc[4]
          /\ domain_separator = keccak256(domain_data)

C3_Witness ==
    /\ pc = "struct_type_hash" /\ IsDigest(domain_separator)
    /\ CHAIN_ID # LIT_CHAIN_ID

\* the bytes b followed, or preceded, by zero bytes up to 32 bytes
PadRight(b) == b \o [i \in 1..(32 - Len(b)) |-> 0]
PadLeft(b) == [i \in 1..(32 - Len(b)) |-> 0] \o b

\* a string field's slot is the 32-byte digest of the string's UTF-8 bytes,
\* not these bytes themselves, padded or cut to 32 bytes
DigestOfString(slot, string) ==
    \E raw \in {encode_utf8(string).val} :
        /\ IsDigest(slot)
        /\ slot = keccak256(raw)
        /\ Len(raw) <= 32 => slot # PadRight(raw) /\ slot # PadLeft(raw)
        /\ Len(raw) > 32 => slot # SubSeq(raw, 1, 32)

\* C8: name, version, method and path each contribute to their preimage
\* exactly the 32-byte digest of their UTF-8 bytes, whatever their length:
\* the hashes assigned by lines 46-47 and 74-75 are these digests, and they
\* are slots 1 and 2 of domain_data and of struct_data.
C8_DynamicFields ==
    /\ pc = "chain_id_bytes" => DigestOfString(name_hash, NAME) /\ DigestOfString(version_hash, VERSION)
    /\ domain_data # Empty => Slot(domain_data, 1) = name_hash /\ Slot(domain_data, 2) = version_hash
    /\ pc = "timestamp_bytes" => DigestOfString(method_hash, METHOD) /\ DigestOfString(path_hash, PATH)
    /\ struct_data # Empty => Slot(struct_data, 1) = method_hash /\ Slot(struct_data, 2) = path_hash

C8_Witness ==
    /\ pc = "domain_separator" /\ Len(NAME) = LongLen
    /\ Slot(domain_data, 1) = name_hash /\ Len(name_hash) = 32

IsHexString(s) == \A i \in 1..Len(s) : HexVal(s[i]) < 16

\* C9 as stated: each expected hex string is 66 hex digits (33 bytes) long.
C9_Original ==
    pc = "done" =>
        /\ Len(ts_domain_sep) = 66
        /\ Len(ts_struct_hash) = 66
        /\ Len(ts_message_hash) = 66

\* C9, amended: each expected hex string is 64 hex digits, a canonical 32-byte
\* digest, as long as the hex of the digest it is compared with.
C9_ExpectedDigests ==
    pc = "done" =>
        /\ IsHexString(ts_domain_sep) /\ Len(ts_domain_sep) = 64
        /\ IsHexString(ts_struct_hash) /\ Len(ts_struct_hash) = 64
        /\ IsHexString(ts_message_hash) /\ Len(ts_message_hash) = 64
        /\ Len(Hex(domain_separator)) = Len(ts_domain_sep)
        /\ Len(Hex(struct_hash)) = Len(ts_struct_hash)
        /\ Len(Hex(message_hash)) = Len(ts_message_hash)

C9_Witness ==
    /\ pc = "done" /\ inputs = <<LIT_NAME, LIT_VERSION, LIT_CHAIN_ID, LIT_VERIFYING_CONTRACT,
                                 LIT_METHOD, LIT_PATH, LIT_TIMESTAMP, LIT_NONCE>>
    /\ verification = <<TRUE, TRUE, TRUE>>

\* C10: once the three digests are computed the script completes: the
\* comparison step is enabled, raises nothing, and reports three results, each
\* true exactly when the digest's hex equals its expected constant.
C10_Verification ==
    /\ pc = "verification" => ENABLED Verify
    /\ pc = "done" =>
          /\ exc = "none"
          /\ Len(verification) = 3
          /\ verification[1] = (Hex(domain_separator) = ts_domain_sep)
          /\ verification[2] = (Hex(struct_hash) = ts_struct_hash)
          /\ verification[3] = (Hex(message_hash) = ts_message_hash)

C10_Witness == pc = "done" /\ verification = <<FALSE, TRUE, FALSE>>

(***************************************************************************)
(* Properties of the two encoders                                          *)
(***************************************************************************)
\* a <= b for magnitudes (base-256 digits, least significant first)
MagLeq(a, b) ==
    \/ Len(a) < Len(b)
    \/ /\ Len(a) = Len(b)
       /\ \/ a = b
          \/ \E i \in 1..Len(a) : a[i] < b[i] /\ \A j \in (i + 1)..Len(a) : a[j] = b[j]

\* 0 <= v <= 2^256 - 1
InRangeU256(v) == ~v.neg /\ MagLeq(v.mag, Pow2Minus1(256).mag)

\* the base-256 digit of weight 256^k of a non-negative int
DigitAt(v, k) == IF k + 1 <= Len(v.mag) THEN v.mag[k + 1] ELSE 0

\* int.from_bytes(b, 'big'): the int whose digits are the bytes of b from its
\* last byte up to its first non-zero byte
FromBytesBig(b) ==
    LET lead == IF \E i \in 1..Len(b) : b[i] # 0
                THEN CHOOSE i \in 1..Len(b) : b[i] # 0 /\ \A j \in 1..(i - 1) : b[j] = 0
                ELSE Len(b) + 1
    IN [neg |-> FALSE, mag |-> [k \in 1..(Len(b) + 1 - lead) |-> b[Len(b) + 1 - k]]]

\* C4: for 0 <= v <= 2^256 - 1, encode_u256(v) is exactly 32 bytes, the byte
\* of weight 256^k at position 32 - k (most significant first), so that it
\* decodes big-endian to v, and no other value tried has the same encoding.
C4_EncodeU256 ==
    (fn = "encode_u256" /\ InRangeU256(arg)) =>
        /\ ret.exc = "none"
        /\ Len(ret.val) = 32
        /\ \A k \in 0..31 : ret.val[32 - k] \in 0..255 /\ ret.val[32 - k] = DigitAt(arg, k)
        /\ FromBytesBig(ret.val) = arg
        /\ \A other \in U256Inputs :
              (InRangeU256(other) /\ other # arg) => encode_u256(other).val # ret.val

C4_Witness ==
    /\ fn = "encode_u256" /\ arg = Pow2Minus1(256)
    /\ ret.exc = "none" /\ Len(ret.val) = 32

\* C5: for v < 0 or v > 2^256 - 1, encode_u256(v) raises OverflowError, the
\* range error of int.to_bytes, and returns no bytes.
C5_EncodeU256Range ==
    (fn = "encode_u256" /\ ~InRangeU256(arg)) =>
        /\ ret.exc = "OverflowError"
        /\ ret.val = Empty

C5_Witness ==
    /\ fn = "encode_u256" /\ arg = Pow2Int(256)
    /\ ret.exc = "OverflowError"

\* the bytes an address string denotes: those of its hex digits after the
\* two-character prefix; none when these are not pairs of hex digits
AddressBytes(address) == fromhex(SubSeq(address, 3, Len(address)))

Is20ByteAddress(address) ==
    AddressBytes(address).exc = "none" /\ Len(AddressBytes(address).val) = 20

\* C6 as stated: encode_address fails, returning no bytes, whenever its
\* input is not exactly 20 bytes.
C6_LengthError ==
    (fn = "encode_address" /\ ~Is20ByteAddress(arg)) =>
        /\ ret.exc # "none"
        /\ ret.val = Empty

\* C7: for a 20-byte address, encode_address returns exactly 32 bytes: 12
\* zero bytes, then the 20 address bytes in order; for the usual form, a
\* two-character prefix and 40 hex digits, byte i is digits 2i-1 and 2i.
C7_EncodeAddress ==
    (fn = "encode_address" /\ Is20ByteAddress(arg)) =>
        /\ ret.exc = "none"
        /\ Len(ret.val) = 32
        /\ \A i \in 1..12 : ret.val[i] = 0
        /\ SubSeq(ret.val, 13, 32) = AddressBytes(arg).val
        /\ (Len(arg) = 42 /\ IsHexString(SubSeq(arg, 3, 42))) =>
              \A i \in 1..20 : ret.val[12 + i] = 16 * HexVal(arg[2 * i + 1]) + HexVal(arg[2 * i + 2])

C7_Witness ==
    /\ fn = "encode_address" /\ arg = LIT_VERIFYING_CONTRACT
    /\ ret.exc = "none" /\ Len(ret.val) = 32 /\ ret.val[13] = 93 /\ ret.val[32] = 78
====
